---------------------------- MODULE Spec2Model ----------------------------
(***************************************************************************)
(* Model of the ferex2 desktop back end (src-tauri/src/main.rs and         *)
(* src-tauri/src/database.rs): the start-up of the application, the        *)
(* asynchronous task that runs init_database and registers the SQLite      *)
(* pool, and the three commands save_scenario, load_scenarios and          *)
(* delete_scenario, each of which runs one SQL statement on the pool.      *)
(*                                                                         *)
(* The database file outlives the process: dirExists, fileExists,          *)
(* tableExists and rows are the disk; everything else is process state and *)
(* is lost when the process is restarted.                                  *)
(***************************************************************************)
EXTENDS Integers, Sequences, FiniteSets, TLC

VARIABLES
    dirExists,    \* the application's local data directory exists
    fileExists,   \* ferex.db exists in it
    tableExists,  \* the scenarios table exists in ferex.db
    rows,         \* the rows of the scenarios table: a set of 5-tuples in column order
    initPc,       \* where the process and its initialization task stand
    initErr,      \* the error init_database returned, if it did
    managed,      \* a SqlitePool is registered as shared state (app_handle.manage)
    calls,        \* per caller: the command it invoked and how far that command is
    found,        \* history: per caller, what its last statement found under the id it names
    lastWrite     \* history: per id, the scenario of the last successful save, none after a delete

vars == <<dirExists, fileExists, tableExists, rows, initPc, initErr, managed, calls, found,
          lastWrite>>

disk == <<dirExists, fileExists, tableExists, rows>>

---------------------------------------------------------------------------
(* Bounds and input domains *)

\* number of distinct scenario ids the callers use
NumIds == 2

\* scenario ids: opaque strings in the code, only ever compared for equality
Ids == 1..NumIds

\* one extra id for the runs that are about the order of three and more rows
OrderIds == 1..(NumIds + 1)

AllIds == Ids \cup OrderIds

Names == {"n1", "n2"}

Datas == {"d1", "d2"}

\* Timestamps are strings; a string is modelled as the sequence of its digits,
\* so that "1", "10" and "2" are <<1>>, <<1, 0>> and <<2>>.
Stamps == {<<1>>, <<1, 0>>, <<2>>}

FieldStamps == {<<1, 0>>, <<2>>}

Callers == {"c1", "c2"}

None == "none"

---------------------------------------------------------------------------
(* Data *)

\* struct SavedScenario
SavedScenario(ids, names, datas, createds, updateds) ==
    [id : ids, name : names, data : datas, created_at : createds, updated_at : updateds]

\* the column list of CREATE TABLE scenarios, in order
Columns == <<"id", "name", "data", "created_at", "updated_at">>

ColumnIndex(col) == CHOOSE i \in 1..Len(Columns) : Columns[i] = col

\* row.get("<column>")
Get(row, col) == row[ColumnIndex(col)]

\* a slip in the order of the .bind() calls: created_at and updated_at change places
BindScenarioSwapped(s) == <<s.id, s.name, s.data, s.updated_at, s.created_at>>

\* the five .bind() calls of save_scenario, in the order of the statement's placeholders
BindScenario(s) == <<s.id, s.name, s.data, s.created_at, s.updated_at>>

\* the closure of load_scenarios that turns a row into a SavedScenario
RowToScenario(row) ==
    [id |-> Get(row, "id"),
     name |-> Get(row, "name"),
     data |-> Get(row, "data"),
     created_at |-> Get(row, "created_at"),
     updated_at |-> Get(row, "updated_at")]

\* Result<(), String> and Result<Vec<SavedScenario>, String>
Ok(v) == [ok |-> TRUE, val |-> v]

\* Err(e.to_string()): the error, rendered as a string
Err(e) == [ok |-> FALSE, val |-> e]

\* the error of a statement that could not read or write the database file
IoError == "io error"

\* tries is history: how often the body of the command has run
NoCall == [pc |-> "idle", op |-> None, arg |-> None, result |-> None, tries |-> 0]


---------------------------------------------------------------------------
(* The SQL statements, as SQLite executes them on the scenarios table *)

\* Comparison of two TEXT values under SQLite's default BINARY collation:
\* byte by byte, and a proper prefix sorts first.
RECURSIVE TextLess(_, _)
TextLess(a, b) ==
    IF a = <<>> THEN b # <<>>
    ELSE IF b = <<>> THEN FALSE
    ELSE IF a[1] # b[1] THEN a[1] < b[1]
    ELSE TextLess(Tail(a), Tail(b))

\* DROP TABLE and CREATE TABLE at every start: the rows are lost
DropAndCreateTable(exists, table) == {}

\* CREATE TABLE IF NOT EXISTS scenarios (id TEXT PRIMARY KEY, ...):
\* an existing table is left as it is, a missing one is created empty
CreateTableIfNotExists(exists, table) == IF exists THEN table ELSE {}

\* the error of that statement when the table exists already: none, it is skipped
CreateTableError(exists) == None

\* id TEXT PRIMARY KEY: two rows conflict when they agree on the key column
PrimaryKey == "id"

\* a table declared without the PRIMARY KEY: no two rows ever conflict
ConflictNever(r, row) == FALSE

\* a table that declares name UNIQUE as well
ConflictOnIdOrName(r, row) ==
    Get(r, "id") = Get(row, "id") \/ Get(r, "name") = Get(row, "name")

Conflict(r, row) == Get(r, PrimaryKey) = Get(row, PrimaryKey)

\* INSERT ... ON CONFLICT(id) DO UPDATE SET name, data, updated_at: an upsert that
\* keeps the created_at of the row it finds
UpsertKeepingCreatedAt(table, row) ==
    {r \in table : Get(r, "id") # Get(row, "id")}
        \cup {IF \E r \in table : Get(r, "id") = Get(row, "id")
               THEN [row EXCEPT ![ColumnIndex("created_at")] =
                        Get(CHOOSE r \in table : Get(r, "id") = Get(row, "id"), "created_at")]
               ELSE row}

\* INSERT OR IGNORE: a row that conflicts with a stored one is dropped
InsertOrIgnore(table, row) ==
    IF \E r \in table : Get(r, "id") = Get(row, "id") THEN table ELSE table \cup {row}

\* INSERT OR REPLACE INTO scenarios (id, name, data, created_at, updated_at) VALUES (?, ?, ?, ?, ?):
\* the rows that conflict with the new row on the primary key are deleted, then the row is inserted
InsertOrReplace(table, row) ==
    {r \in table : ~Conflict(r, row)} \cup {row}

\* DELETE FROM scenarios, the WHERE clause forgotten
DeleteAllRows(table, id) == {}

\* DELETE FROM scenarios WHERE id = ?
DeleteWhereId(table, id) == {r \in table : Get(r, "id") # id}

\* ORDER BY updated_at, the DESC forgotten
OrderedByUpdatedAtAsc(seq) ==
    \A i \in 1..(Len(seq) - 1) :
        ~TextLess(Get(seq[i + 1], "updated_at"), Get(seq[i], "updated_at"))

\* ORDER BY updated_at DESC: no row is followed by one with a greater updated_at
OrderedByUpdatedAtDesc(seq) ==
    \A i \in 1..(Len(seq) - 1) :
        ~TextLess(Get(seq[i], "updated_at"), Get(seq[i + 1], "updated_at"))

\* SELECT * FROM scenarios ORDER BY updated_at DESC: the result sets the statement
\* may produce; SQLite leaves the order of rows with equal updated_at open
SelectAllOrdered(table) ==
    {seq \in [1..Cardinality(table) -> table] :
        /\ \A i, j \in 1..Cardinality(table) : seq[i] = seq[j] => i = j
        /\ OrderedByUpdatedAtDesc(seq)}

\* rows.into_iter().map(|row| SavedScenario {...}).collect()
CollectScenarios(seq) == [i \in 1..Len(seq) |-> RowToScenario(seq[i])]

---------------------------------------------------------------------------
(* Start-up: main() and the task that runs init_database *)

Init ==
    /\ dirExists = FALSE
    /\ fileExists = FALSE
    /\ tableExists = FALSE
    /\ rows = {}
    /\ initPc = "start"
    /\ initErr = None
    /\ managed = FALSE
    /\ calls = [c \in Callers |-> NoCall]
    /\ found = [c \in Callers |-> None]
    /\ lastWrite = [i \in AllIds |-> {}]

\* .setup(|app| { spawn(async move {...}); Ok(()) }): the task is spawned, setup
\* returns at once and the event loop starts serving commands
Setup ==
    /\ initPc = "start"
    /\ initPc' = "resolve"
    /\ UNCHANGED <<disk, initErr, managed, calls, found, lastWrite>>

\* app_local_data_dir().expect(...): the task panics when the directory is unknown
InitResolveDir ==
    /\ initPc = "resolve"
    /\ \E resolved \in BOOLEAN :
        initPc' = IF resolved THEN "create_dir" ELSE "panicked"
    /\ UNCHANGED <<disk, initErr, managed, calls, found, lastWrite>>

\* fs::create_dir_all(&app_dir)?
InitCreateDir ==
    /\ initPc = "create_dir"
    /\ \E io \in BOOLEAN :
        /\ dirExists' = (dirExists \/ io)
        /\ initPc' = IF io THEN "connect" ELSE "failed"
        /\ initErr' = IF io THEN initErr ELSE IoError
    /\ UNCHANGED <<fileExists, tableExists, rows, managed, calls, found, lastWrite>>

\* SqlitePool::connect(&database_url).await?: the file is opened, and a missing file is
\* created or is an error (which of the two is the library's choice of create_if_missing)
InitConnect ==
    /\ initPc = "connect"
    /\ \E io \in BOOLEAN :
        /\ fileExists' = (fileExists \/ io)
        /\ initPc' = IF io THEN "create_table" ELSE "failed"
        /\ initErr' = IF io THEN initErr ELSE IoError
    /\ UNCHANGED <<dirExists, tableExists, rows, managed, calls, found, lastWrite>>

\* sqlx::query("CREATE TABLE IF NOT EXISTS ...").execute(&pool).await?; Ok(pool)
InitCreateTable ==
    /\ initPc = "create_table"
    /\ \E io \in BOOLEAN :
        LET e == IF io THEN CreateTableError(tableExists) ELSE IoError
        IN  /\ tableExists' = (tableExists \/ e = None)
            /\ rows' = IF e = None THEN CreateTableIfNotExists(tableExists, rows) ELSE rows
            /\ initPc' = IF e = None THEN "manage" ELSE "failed"
            /\ initErr' = e
    /\ UNCHANGED <<dirExists, fileExists, managed, calls, found, lastWrite>>

\* a pool registered in both arms of the match, whatever init_database returned
InitManageAnyway ==
    /\ initPc \in {"manage", "failed"}
    /\ ~managed
    /\ managed' = TRUE
    /\ initPc' = IF initPc = "manage" THEN "ok" ELSE initPc
    /\ UNCHANGED <<disk, initErr, calls, found, lastWrite>>

\* Ok(pool) => { app_handle.manage(pool); ... }
InitManage ==
    /\ initPc = "manage"
    /\ managed' = TRUE
    /\ initPc' = "ok"
    /\ UNCHANGED <<disk, initErr, calls, found, lastWrite>>

\* The process ends and the application is started again: the disk is kept,
\* the commands in flight and the registered pool are gone.
Restart ==
    /\ initPc # "start"
    /\ initPc' = "start"
    /\ initErr' = None
    /\ managed' = FALSE
    /\ calls' = [c \in Callers |-> NoCall]
    /\ found' = [c \in Callers |-> None]
    /\ UNCHANGED <<disk, lastWrite>>

---------------------------------------------------------------------------
(* The commands *)

\* State<'_, SqlitePool>: the command's pool argument is taken from the shared
\* state when the command is dispatched. Without a registered pool tauri 1.x
\* (the version whose path_resolver() init_database calls) panics in the
\* command's task: "state not managed for field `pool` ... You must call
\* `.manage()` before using this command"; no reply is sent to the caller.
ExtractPool(registered) == IF registered THEN "executing" ELSE "panicked"

\* a calculator that asks for the pool as well
NeedsPoolAlways(op) == TRUE

\* save_scenario, load_scenarios and delete_scenario take the pool as an argument;
\* calculate_fers_pension takes numbers only
NeedsPool(op) == op \in {"save", "load", "delete"}

\* The front end invokes a command of generate_handler![...]; the handler is
\* registered on the builder, so it serves from the moment the event loop runs.
Invoke(c, op, arg) ==
    /\ initPc # "start"
    /\ calls[c].pc # "executing"
    /\ LET pc == IF NeedsPool(op) THEN ExtractPool(managed) ELSE "executing"
       IN  calls' = [calls EXCEPT ![c] =
                        [pc |-> pc, op |-> op, arg |-> IF pc = "executing" THEN arg ELSE <<>>,
                         result |-> None, tries |-> 0]]
    /\ found' = [found EXCEPT ![c] = None]
    /\ UNCHANGED <<disk, initPc, initErr, managed, lastWrite>>

\* History only: whether the table holds a row with the id of the statement (row[1]),
\* and whether every other column the statement gives differs from that row's.
Found(table, row) ==
    IF \A r \in table : Get(r, "id") # row[1] THEN "absent"
    ELSE IF \E r \in table :
                /\ Get(r, "id") = row[1]
                /\ Len(row) = Len(r)
                /\ \A i \in 2..Len(r) : r[i] # row[i]
         THEN "replaced"
         ELSE "present"

\* History only: the list a caller holds is "fresh" until a statement changes the table
Stale(c, table, table2) ==
    [d \in Callers |-> IF d # c /\ found[d] = "fresh" /\ table2 # table THEN "stale" ELSE found[d]]

\* a command that runs its statement again when it failed
ReturnRetrying(c, result) ==
    IF result.ok
    THEN [calls EXCEPT ![c].pc = "returned", ![c].result = result, ![c].tries = @ + 1]
    ELSE [calls EXCEPT ![c].tries = @ + 1]

\* .map_err(|e| e.to_string())?; Ok(...): the command returns its result to the
\* caller. Its argument is kept for the history of a successful call only.
Return(c, result) ==
    [calls EXCEPT ![c].pc = "returned", ![c].result = result,
                  ![c].arg = IF result.ok THEN @ ELSE <<>>,
                  ![c].tries = @ + 1]

\* save_scenario: the INSERT OR REPLACE statement runs, or fails with an I/O error
SaveScenario(c) ==
    /\ calls[c].pc = "executing"
    /\ calls[c].op = "save"
    /\ \E io \in BOOLEAN :
        /\ rows' = IF io THEN InsertOrReplace(rows, BindScenario(calls[c].arg)) ELSE rows
        /\ calls' = Return(c, IF io THEN Ok(<<>>) ELSE Err(IoError))
        /\ lastWrite' = IF io THEN [lastWrite EXCEPT ![calls[c].arg.id] = {calls[c].arg}]
                        ELSE lastWrite
        /\ found' = [Stale(c, rows, rows') EXCEPT ![c] =
                        IF io THEN Found(rows, BindScenario(calls[c].arg)) ELSE None]
    /\ UNCHANGED <<dirExists, fileExists, tableExists, initPc, initErr, managed>>

\* a load that takes an empty result set for an error, as fetch_one does
LoadResultNonEmpty(seq) ==
    IF seq = <<>> THEN Err("no rows returned") ELSE Ok(CollectScenarios(seq))

\* what load_scenarios returns for the rows fetch_all gave it
LoadResult(seq) == Ok(CollectScenarios(seq))

\* a list that consumes what it reads (DELETE FROM scenarios RETURNING *)
LoadScenariosDraining(c) ==
    /\ calls[c].pc = "executing"
    /\ calls[c].op = "load"
    /\ \E seq \in SelectAllOrdered(rows) : calls' = Return(c, Ok(CollectScenarios(seq)))
    /\ rows' = {}
    /\ found' = [found EXCEPT ![c] = "fresh"]
    /\ UNCHANGED <<dirExists, fileExists, tableExists, initPc, initErr, managed, lastWrite>>

\* load_scenarios: the SELECT statement runs, or fails with an I/O error
LoadScenarios(c) ==
    /\ calls[c].pc = "executing"
    /\ calls[c].op = "load"
    /\ \E io \in BOOLEAN :
        /\ IF io
           THEN \E seq \in SelectAllOrdered(rows) : calls' = Return(c, LoadResult(seq))
           ELSE calls' = Return(c, Err(IoError))
        /\ found' = [found EXCEPT ![c] = IF io THEN "fresh" ELSE None]
    /\ UNCHANGED <<disk, initPc, initErr, managed, lastWrite>>

\* a delete that reports an id it did not find
DeleteResultStrict(affected) == IF affected = 0 THEN Err("not found") ELSE Ok(<<>>)

\* what delete_scenario returns when its statement ran and deleted `affected` rows:
\* the statement's result is dropped
DeleteResult(affected) == Ok(<<>>)

\* delete_scenario: the DELETE statement runs, or fails with an I/O error
DeleteScenario(c) ==
    /\ calls[c].pc = "executing"
    /\ calls[c].op = "delete"
    /\ \E io \in BOOLEAN :
        /\ rows' = IF io THEN DeleteWhereId(rows, calls[c].arg) ELSE rows
        /\ calls' = Return(c, IF io THEN DeleteResult(Cardinality(rows) - Cardinality(rows'))
                                   ELSE Err(IoError))
        /\ lastWrite' = IF io THEN [lastWrite EXCEPT ![calls[c].arg] = {}] ELSE lastWrite
        /\ found' = [Stale(c, rows, rows') EXCEPT ![c] =
                        IF io THEN Found(rows, <<calls[c].arg>>) ELSE None]
    /\ UNCHANGED <<dirExists, fileExists, tableExists, initPc, initErr, managed>>

---------------------------------------------------------------------------
(* The pension calculator *)

\* Amounts are fixed-point numbers: service_years in thousandths of a year, the
\* multiplier in thousandths, high_three in thousands of dollars, so that the
\* pension is in thousandths of a dollar.
FullAge == 62

FullServiceYears == 20000

EnhancedMultiplier == 11

StandardMultiplier == 10

\* an off-by-one at the age threshold: the higher multiplier from 61 on
MultiplierOffByOne(service_years, age_at_retirement) ==
    IF age_at_retirement >= FullAge - 1 /\ service_years >= FullServiceYears
    THEN EnhancedMultiplier
    ELSE StandardMultiplier

\* let multiplier = if age_at_retirement >= 62 && service_years >= 20.0 {0.011} else {0.01}
Multiplier(service_years, age_at_retirement) ==
    IF age_at_retirement >= FullAge /\ service_years >= FullServiceYears
    THEN EnhancedMultiplier
    ELSE StandardMultiplier

\* Ok(high_three * service_years * multiplier)
FersPension(service_years, high_three, age_at_retirement) ==
    Ok(high_three * service_years * Multiplier(service_years, age_at_retirement))

\* calculate_fers_pension: the body of the command runs
CalculateFersPension(c) ==
    /\ calls[c].pc = "executing"
    /\ calls[c].op = "pension"
    /\ calls' = Return(c, FersPension(calls[c].arg[1], calls[c].arg[2], calls[c].arg[3]))
    /\ UNCHANGED <<disk, initPc, initErr, managed, found, lastWrite>>

\* inputs around the two thresholds: 19.999, 20.0 and 20.001 years, $0 and $100,000
ServiceYears == {FullServiceYears - 1, FullServiceYears, FullServiceYears + 1}

HighThrees == {0, 100}

Ages == {FullAge - 1, FullAge, FullAge + 1}

---------------------------------------------------------------------------
(* Specifications *)

\* what the application does on its own
System == Setup \/ InitResolveDir \/ InitCreateDir \/ InitConnect \/ InitCreateTable
          \/ InitManage \/ Restart

\* what the callers in cs do, saving scenarios of ss and deleting ids of is
Commands(cs, ss, is) ==
    \E c \in cs :
        \/ \E s \in ss : Invoke(c, "save", s)
        \/ Invoke(c, "load", <<>>)
        \/ \E i \in is : Invoke(c, "delete", i)
        \/ SaveScenario(c)
        \/ LoadScenarios(c)
        \/ DeleteScenario(c)

\* one caller, every combination of field values
FieldScenarios == SavedScenario(Ids, Names, Datas, FieldStamps, FieldStamps)

Next == System \/ Commands({"c1"}, FieldScenarios, Ids)

Spec == Init /\ [][Next]_vars

\* one caller, one more id, every timestamp as updated_at and the other fields fixed
OrderScenarios == SavedScenario(OrderIds, {"n1"}, {"d1"}, {<<1>>}, Stamps)

NextOrder == System \/ Commands({"c1"}, OrderScenarios, OrderIds)

SpecOrder == Init /\ [][NextOrder]_vars

\* two callers whose commands interleave; two scenarios per id that differ in every field
ConcurrentScenarios ==
    SavedScenario(Ids, {"n1"}, {"d1"}, {<<1, 0>>}, {<<2>>})
        \cup SavedScenario(Ids, {"n2"}, {"d2"}, {<<2>>}, {<<1, 0>>})

NextConcurrent == System \/ Commands(Callers, ConcurrentScenarios, Ids)

SpecConcurrent == Init /\ [][NextConcurrent]_vars

\* what the callers in cs do with the calculator
PensionCommands(cs) ==
    \E c \in cs :
        \/ \E sy \in ServiceYears, hs \in HighThrees, age \in Ages :
                Invoke(c, "pension", <<sy, hs, age>>)
        \/ CalculateFersPension(c)

\* one caller that uses the store and the calculator
NextPension ==
    System \/ Commands({"c1"}, ConcurrentScenarios, Ids) \/ PensionCommands({"c1"})

SpecPension == Init /\ [][NextPension]_vars


---------------------------------------------------------------------------
(* Properties *)

Returned(c, op) == calls[c].pc = "returned" /\ calls[c].op = op

\* the step in which the statement of caller c's command op runs
Runs(c, op) ==
    /\ calls[c].pc = "executing"
    /\ calls[c].op = op
    /\ calls'[c].pc = "returned"

StoredScenarios == {RowToScenario(r) : r \in rows}

\* C1 (round trip): a list that succeeds returns, for every id whose last successful
\* write was a save of s, exactly one scenario with that id, and it equals s in
\* name, data, created_at and updated_at.
C1_RoundTrip ==
    \A c \in Callers :
        (Returned(c, "load") /\ calls[c].result.ok) =>
            \A i \in AllIds : \A s \in lastWrite[i] :
                LET loaded == calls[c].result.val
                    at == {k \in 1..Len(loaded) : loaded[k].id = i}
                IN  /\ Cardinality(at) = 1
                    /\ \A k \in at :
                        /\ loaded[k].name = s.name
                        /\ loaded[k].data = s.data
                        /\ loaded[k].created_at = s.created_at
                        /\ loaded[k].updated_at = s.updated_at

\* a list has returned a saved scenario whose created_at and updated_at differ
C1_Witness ==
    \E c \in Callers :
        /\ Returned(c, "load")
        /\ calls[c].result.ok
        /\ \E k \in 1..Len(calls[c].result.val) :
            LET s == calls[c].result.val[k]
            IN  /\ lastWrite[s.id] = {s}
                /\ s.created_at # s.updated_at

\* C2 (upsert): after a successful save of s that found a row with s.id, the table
\* holds exactly one row with that id, and its name, data, created_at and updated_at
\* are those of s; nothing of the row it found is kept.
C2_Upsert ==
    \A c \in Callers :
        (Returned(c, "save") /\ calls[c].result.ok /\ found[c] # "absent") =>
            LET s == calls[c].arg
                kept == {r \in rows : Get(r, "id") = s.id}
            IN  /\ Cardinality(kept) = 1
                /\ \A r \in kept :
                    /\ Get(r, "name") = s.name
                    /\ Get(r, "data") = s.data
                    /\ Get(r, "created_at") = s.created_at
                    /\ Get(r, "updated_at") = s.updated_at

\* a save has replaced a row that differed from it in all four fields
C2_Witness ==
    \E c \in Callers :
        Returned(c, "save") /\ calls[c].result.ok /\ found[c] = "replaced"

\* C3 (key uniqueness): the table never holds two rows with the same id.
C3_KeyUnique ==
    \A r1, r2 \in rows : Get(r1, "id") = Get(r2, "id") => r1 = r2

\* a save has replaced a row while the table holds rows of several ids
C3_Witness ==
    /\ Cardinality(rows) >= 2
    /\ \E c \in Callers : Returned(c, "save") /\ calls[c].result.ok /\ found[c] = "replaced"

\* C4 (list order and completeness): a list that succeeds returns every stored row
\* exactly once and nothing else, and no element's updated_at is lexically less than
\* that of the element after it.
C4_ListOrdered ==
    \A c \in Callers :
        (Returned(c, "load") /\ calls[c].result.ok) =>
            LET loaded == calls[c].result.val
            IN  /\ Len(loaded) = Cardinality(rows)
                /\ {loaded[k] : k \in 1..Len(loaded)} = StoredScenarios
                /\ \A k \in 1..(Len(loaded) - 1) :
                    ~TextLess(loaded[k].updated_at, loaded[k + 1].updated_at)

\* a list has returned three rows with updated_at "2", "10" and "1", in this order
C4_Witness ==
    \E c \in Callers :
        /\ Returned(c, "load")
        /\ calls[c].result.ok
        /\ Len(calls[c].result.val) = 3
        /\ calls[c].result.val[1].updated_at = <<2>>
        /\ calls[c].result.val[2].updated_at = <<1, 0>>
        /\ calls[c].result.val[3].updated_at = <<1>>

\* C5 (idempotent delete): a delete of an id that has no row leaves the rows as they
\* are and does not fail for that: it returns success, or the I/O error of its statement.
C5_DeleteAbsent ==
    [][\A c \in Callers :
        (Runs(c, "delete") /\ \A r \in rows : Get(r, "id") # calls[c].arg) =>
            /\ rows' = rows
            /\ calls'[c].result.ok \/ calls'[c].result.val = IoError]_vars

\* a delete of an id without a row has returned success, with other rows stored
C5_Witness ==
    \E c \in Callers :
        /\ Returned(c, "delete")
        /\ calls[c].result.ok
        /\ found[c] = "absent"
        /\ rows # {}

\* C6 (delete effect and frame): after a successful delete of an id no row has that
\* id, at most one row is gone, and every row with another id is stored unchanged.
C6_DeleteFrame ==
    [][\A c \in Callers :
        (Runs(c, "delete") /\ calls'[c].result.ok) =>
            /\ \A r \in rows' : Get(r, "id") # calls[c].arg
            /\ Cardinality(rows) - Cardinality(rows') <= 1
            /\ rows' \subseteq rows
            /\ \A r \in rows : Get(r, "id") # calls[c].arg => r \in rows']_vars

\* a delete has removed a row and left another one stored
C6_Witness ==
    \E c \in Callers :
        /\ Returned(c, "delete")
        /\ calls[c].result.ok
        /\ found[c] = "present"
        /\ rows # {}

\* C7 (re-initialization and restart): no step of a start-up (the restart itself, setup,
\* and every step of init_database) changes the stored rows or drops the table, and
\* init_database fails for an I/O error only, never because the database is there already.
C7_InitKeepsRows ==
    [][initPc' # initPc =>
        /\ rows' = rows
        /\ tableExists => tableExists'
        /\ initPc' = "failed" => initErr' = IoError]_vars

\* after a restart init_database has succeeded on a database that holds rows, and no
\* command has been invoked since
C7_Witness ==
    /\ initPc = "ok"
    /\ managed
    /\ rows # {}
    /\ \A c \in Callers : calls[c].pc = "idle"

\* C8 (empty store): a list on a table without rows returns success with the empty
\* sequence; it fails for the I/O error of its statement only.
C8_EmptyList ==
    \A c \in Callers :
        (Returned(c, "load") /\ rows = {}) =>
            \/ calls[c].result.ok /\ calls[c].result.val = <<>>
            \/ ~calls[c].result.ok /\ calls[c].result.val = IoError

\* a list has returned the empty sequence
C8_Witness ==
    \E c \in Callers :
        /\ Returned(c, "load")
        /\ calls[c].result.ok
        /\ calls[c].result.val = <<>>
        /\ rows = {}

\* C9 (not Ready): a command invoked while no pool is registered returns an error to
\* its caller.
C9_FailsCleanly ==
    \A c \in Callers :
        (~managed /\ calls[c].pc # "idle") =>
            calls[c].pc = "returned" /\ ~calls[c].result.ok

\* C10 (sequencing): no command is dispatched before init_database has succeeded and
\* its pool is registered.
C10_InitFirst ==
    \A c \in Callers : calls[c].pc # "idle" => (initPc = "ok" /\ managed)


ScenariosOf(i) == {RowToScenario(r) : r \in {x \in rows : Get(x, "id") = i}}

\* C11 (concurrent writers): with the commands of two callers interleaved, every stored
\* row and every scenario a list returns carries the four fields of one single save (the
\* saves differ in every field, so no mix of them is a saved scenario); a list never
\* returns two scenarios with one id; and when both callers have last saved the same id,
\* that id's row is the scenario of one of the two saves.
C11_AtomicWrites ==
    /\ \A r \in rows : RowToScenario(r) \in ConcurrentScenarios
    /\ \A c \in Callers :
        (Returned(c, "load") /\ calls[c].result.ok) =>
            LET loaded == calls[c].result.val
            IN  \A k \in 1..Len(loaded) :
                    /\ loaded[k] \in ConcurrentScenarios
                    /\ \A j \in 1..Len(loaded) : loaded[j].id = loaded[k].id => j = k
    /\ \A c, d \in Callers :
        (/\ c # d
         /\ Returned(c, "save") /\ calls[c].result.ok
         /\ Returned(d, "save") /\ calls[d].result.ok
         /\ calls[c].arg.id = calls[d].arg.id) =>
            /\ ScenariosOf(calls[c].arg.id) # {}
            /\ ScenariosOf(calls[c].arg.id) \subseteq {calls[c].arg, calls[d].arg}

\* two callers have saved different scenarios under one id, one replacing a row
C11_Witness ==
    \E c, d \in Callers :
        /\ c # d
        /\ Returned(c, "save") /\ calls[c].result.ok
        /\ Returned(d, "save") /\ calls[d].result.ok
        /\ calls[c].arg.id = calls[d].arg.id
        /\ calls[c].arg # calls[d].arg
        /\ found[c] = "replaced"

\* C12 (pension rule): the calculator returns high_three * service_years * 0.011 when
\* age_at_retirement >= 62 and service_years >= 20.0, and high_three * service_years * 0.01
\* otherwise (service years and multiplier in thousandths).
C12_PensionRule ==
    \A c \in Callers :
        Returned(c, "pension") =>
            LET sy == calls[c].arg[1]
                hs == calls[c].arg[2]
                age == calls[c].arg[3]
            IN  /\ calls[c].result.ok
                /\ calls[c].result.val =
                    IF age >= 62 /\ sy >= 20000 THEN hs * sy * 11 ELSE hs * sy * 10

\* the calculator has returned $22,000 for 20.0 years, $100,000 and age 62
C12_Witness ==
    \E c \in Callers :
        /\ Returned(c, "pension")
        /\ calls[c].arg = <<20000, 100, 62>>
        /\ calls[c].result.val = 22000000

\* C13 (calculator total and independent): a call of the calculator is never refused for
\* want of a pool, and the step in which it runs returns success and leaves the disk, the
\* initialization and the registered pool as they are.
C13_PensionTotal ==
    [][\A c \in Callers :
        /\ calls'[c].op = "pension" => calls'[c].pc # "panicked"
        /\ Runs(c, "pension") =>
            /\ calls'[c].result.ok
            /\ UNCHANGED <<dirExists, fileExists, tableExists, rows, initPc, initErr, managed>>]_vars

\* the calculator has returned a value after init_database failed, with rows on disk
C13_Witness ==
    \E c \in Callers :
        /\ Returned(c, "pension")
        /\ calls[c].result.ok
        /\ initPc = "failed"
        /\ ~managed
        /\ rows # {}

\* C14 (storage failures): the statement of a command runs once and the command returns
\* then; when it returns an error, that is the I/O error and the rows are unchanged; when
\* it returns success, the statement has taken effect.
C14_FailureSurfaced ==
    [][\A c \in Callers :
        (calls[c].pc = "executing" /\ calls'[c].tries # calls[c].tries) =>
            /\ calls'[c].pc = "returned"
            /\ calls'[c].tries = 1
            /\ ~calls'[c].result.ok => (calls'[c].result.val = IoError /\ rows' = rows)
            /\ (calls'[c].result.ok /\ calls[c].op = "save") =>
                    calls[c].arg \in {RowToScenario(r) : r \in rows'}
            /\ (calls'[c].result.ok /\ calls[c].op = "delete") =>
                    \A r \in rows' : Get(r, "id") # calls[c].arg]_vars

\* a save has returned an error after one try, with rows stored
C14_Witness ==
    \E c \in Callers :
        /\ Returned(c, "save")
        /\ ~calls[c].result.ok
        /\ calls[c].tries = 1
        /\ rows # {}

\* a command is dispatched for caller c
Dispatched(c) ==
    /\ calls[c].pc # "executing"
    /\ calls'[c].pc \in {"executing", "panicked"}
    /\ calls'[c].pc # calls[c].pc \/ calls'[c].op # calls[c].op

\* C15 (fatal init failure): once init_database has returned an error, the application
\* accepts no further command.
C15_InitFailureFatal ==
    [][initPc = "failed" => \A c \in Callers : ~Dispatched(c)]_vars

\* C16 (operations finish): a command that has been issued and has not returned yet can
\* always take the step that returns its result.
C16_IssuedCallFinishes ==
    \A c \in Callers :
        calls[c].pc \notin {"idle", "returned"} =>
            ENABLED (SaveScenario(c) \/ LoadScenarios(c) \/ DeleteScenario(c))

\* C17 (publication after success): a pool is registered only when init_database has
\* returned Ok, with the directory, the file and the table in place; after a failed or
\* panicked initialization no pool is registered.
C17_ManagedAfterSuccess ==
    /\ managed => (initPc = "ok" /\ initErr = None /\ dirExists /\ fileExists /\ tableExists)
    /\ initPc \in {"failed", "panicked"} => ~managed

\* init_database has failed on a database that earlier runs had filled
C17_Witness ==
    /\ initPc = "failed"
    /\ tableExists
    /\ rows # {}
    /\ ~managed

\* C18 (last write wins): an id has a row exactly when the last successful command that
\* named it was a save, and the row is the scenario of that save.
C18_LastWriteWins ==
    \A i \in AllIds : ScenariosOf(i) = lastWrite[i]

\* a save has created the row again that the other caller's delete had removed
C18_Witness ==
    \E c, d \in Callers :
        /\ Returned(c, "save") /\ calls[c].result.ok /\ found[c] = "absent"
        /\ Returned(d, "delete") /\ calls[d].result.ok /\ found[d] = "present"
        /\ calls[d].arg = calls[c].arg.id
        /\ ScenariosOf(calls[d].arg) = {calls[c].arg}

\* C19 (save frame): a successful save of s changes the row with s.id only: the rows
\* with other ids are the same before and after, and the table grows by one row when no
\* row had s.id and keeps its size otherwise.
C19_SaveFrame ==
    [][\A c \in Callers :
        (Runs(c, "save") /\ calls'[c].result.ok) =>
            LET i == calls[c].arg.id
            IN  /\ {r \in rows : Get(r, "id") # i} = {r \in rows' : Get(r, "id") # i}
                /\ Cardinality(rows') =
                    Cardinality(rows) + (IF \E r \in rows : Get(r, "id") = i THEN 0 ELSE 1)]_vars

\* a save under a new id has added a row beside one that agrees with it in all four
\* other fields
C19_Witness ==
    \E c \in Callers :
        /\ Returned(c, "save") /\ calls[c].result.ok /\ found[c] = "absent"
        /\ \E r \in rows :
            /\ Get(r, "id") # calls[c].arg.id
            /\ Get(r, "name") = calls[c].arg.name
            /\ Get(r, "data") = calls[c].arg.data
            /\ Get(r, "created_at") = calls[c].arg.created_at
            /\ Get(r, "updated_at") = calls[c].arg.updated_at

Loaded(c) == {calls[c].result.val[k] : k \in 1..Len(calls[c].result.val)}

\* C20 (list is read-only): the step in which a list runs leaves the disk unchanged,
\* whether it succeeds or fails, and a list that succeeds returns the same scenarios as
\* the list the other caller holds, when no statement has changed the table since.
C20_ListReadOnly ==
    [][\A c \in Callers :
        Runs(c, "load") =>
            /\ UNCHANGED <<dirExists, fileExists, tableExists, rows>>
            /\ calls'[c].result.ok =>
                \A d \in Callers \ {c} :
                    (Returned(d, "load") /\ found[d] = "fresh") =>
                        /\ Len(calls'[c].result.val) = Len(calls[d].result.val)
                        /\ {calls'[c].result.val[k] : k \in 1..Len(calls'[c].result.val)}
                            = Loaded(d)]_vars

\* both callers hold a list of the same two rows
C20_Witness ==
    /\ Cardinality(rows) >= 2
    /\ \A c \in Callers :
        Returned(c, "load") /\ calls[c].result.ok /\ found[c] = "fresh"

=============================================================================
